---- MODULE Spec2Model ----
(***************************************************************************)
(* Model of fraudclf.data_fetcher.DataFetcher: a CSV file is read into a   *)
(* DataFrame (_read_csv_file) and split into features and target           *)
(* (get_features_and_target).  The instance fields, the file on disk, and  *)
(* what the last call returned, raised and logged are the state.           *)
(***************************************************************************)
EXTENDS Integers, Sequences, FiniteSets, TLC

VARIABLES csv_path, has_header, target_name, id_column,
          disk, modified, call, repeated, ret, df, log

config == <<csv_path, has_header, target_name, id_column>>
vars == <<csv_path, has_header, target_name, id_column,
          disk, modified, call, repeated, ret, df, log>>

(***************************************************************************)
(* Bounds of the model.                                                    *)
(***************************************************************************)
MaxLines == 3
MaxCols == 3

(***************************************************************************)
(* Python values.  A column label is None, a str or an int; labels of      *)
(* different types are never equal ("0" is not 0).                         *)
(***************************************************************************)
None == <<"None">>
Label(s) == <<"str", s>>
Positional(n) == <<"int", n>>

\* bool(c) of a label: None, "" and 0 are falsy.
Truthy(c) == c # None /\ c # Label("") /\ c # Positional(0)

Digits == <<"1", "2", "3", "4", "5", "6", "7", "8", "9">>

\* The decimal numeral of n.
Decimal(n) == IF n = 0 THEN "0" ELSE Digits[n]

\* The strings a field of the first line is drawn from.
FieldNames == {"id", "label", "amount"}
\* The same, with an empty field and a name that ends like a suffix of read_csv.
HeaderFields == FieldNames \cup {"", "id.1"}
\* A line without characters: its one field is empty.
Blank == <<"">>
\* A data line is the line of one record: its j-th field is v followed by j.
RecordKeys == {"a", "b"}
DataLine(v, c) == [j \in 1..c |-> v \o Digits[j]]

\* The names a caller passes for target_column_name and id_column_name.
ConfigNames == {None, Label(""), Label("id"), Label("label")}
DiskPath == "data.csv"
Paths == {"data.csv", "missing.csv"}

(***************************************************************************)
(* The file system: the one file at DiskPath.                              *)
(***************************************************************************)
Absent == [status |-> "absent", lines |-> <<>>]
Text(lines) == [status |-> "text", lines |-> lines]

FirstLines == UNION {[1..c -> FieldNames] : c \in 1..MaxCols}

\* The record keys of the data lines of a file, line by line.
DataKeys == UNION {[1..n -> RecordKeys] : n \in 0..(MaxLines - 1)}

\* The text of header line h followed by the data lines of the given keys.
TextOf(h, keys) == <<h>> \o [k \in DOMAIN keys |-> DataLine(keys[k], Len(h))]

Files ==
    {Absent, Text(<<>>)}
    \cup {[status |-> s, lines |-> <<>>] : s \in {"denied", "undecodable"}}
    \cup {Text(TextOf(h, keys)) : h \in FirstLines, keys \in DataKeys}

\* What each line of a file is: blank, or the record of a key.
LineKinds == UNION {[1..n -> RecordKeys \cup {"blank"}] : n \in 0..MaxLines}

\* The text whose i-th line is blank or a record as kinds[i] says; its first
\* record is the header line h, the others are data lines.
LinesOf(h, kinds) ==
    [i \in DOMAIN kinds |->
        IF kinds[i] = "blank" THEN Blank
        ELSE IF \A j \in 1..(i - 1) : kinds[j] = "blank" THEN h
        ELSE DataLine(kinds[i], Len(h))]

\* The files a load is checked on: blank lines anywhere, and first records with
\* empty, repeated and suffix-like fields.
LoadFiles ==
    {Absent}
    \cup {[status |-> s, lines |-> <<>>] : s \in {"denied", "undecodable"}}
    \cup {Text(LinesOf(h, kinds)) :
            h \in UNION {[1..c -> HeaderFields] : c \in 1..MaxCols} \ {Blank},
            kinds \in LineKinds}

\* What is at DiskPath when the instance is given another path, one where no
\* file is: nothing, or a file of one header line.
OtherFiles == {Absent} \cup {Text(<<h>>) : h \in [1..1 -> FieldNames]}

Lookup(path) == IF path = DiskPath THEN disk ELSE Absent

(***************************************************************************)
(* DataFrames.  A frame is its column labels and its rows; a Series is its *)
(* name and its values.                                                    *)
(***************************************************************************)
DataFrame(columns, rows) == [kind |-> "DataFrame", columns |-> columns, rows |-> rows]
Series(name, values) == [kind |-> "Series", columns |-> <<name>>, rows |-> values]
NoFrame == DataFrame(<<>>, <<>>)

Range(s) == {s[i] : i \in DOMAIN s}

\* c in df.columns
InColumns(c, frame) == c \in Range(frame.columns)

\* The position of label c among the columns (labels of a parsed frame are unique).
ColIndex(c, frame) ==
    IF InColumns(c, frame)
      THEN CHOOSE i \in DOMAIN frame.columns : frame.columns[i] = c
      ELSE 0

\* The positions among the first n columns whose label is not in labels, in order.
RECURSIVE KeptPositions(_, _, _)
KeptPositions(columns, labels, n) ==
    IF n = 0 THEN <<>>
    ELSE IF columns[n] \in labels THEN KeptPositions(columns, labels, n - 1)
    ELSE Append(KeptPositions(columns, labels, n - 1), n)

\* frame.iloc[:, positions]
Take(frame, positions) ==
    DataFrame([k \in DOMAIN positions |-> frame.columns[positions[k]]],
              [r \in DOMAIN frame.rows |->
                  [k \in DOMAIN positions |-> frame.rows[r][positions[k]]]])

\* A variant of Drop that also loses the first row.
DropSkippingFirstRow(frame, labels) ==
    LET kept == Take(frame, KeptPositions(frame.columns, Range(labels),
                                          Len(frame.columns)))
    IN  DataFrame(kept.columns, IF kept.rows = <<>> THEN <<>> ELSE Tail(kept.rows))

\* frame.drop(columns=labels), once every label is known to be a column.
Drop(frame, labels) ==
    Take(frame, KeptPositions(frame.columns, Range(labels), Len(frame.columns)))

\* The labels frame.drop(columns=labels) does not find, which make it raise KeyError.
NotFoundInAxis(frame, labels) == SelectSeq(labels, LAMBDA c : ~InColumns(c, frame))

\* The labels frame[labels] does not find, which make it raise KeyError.
NotInIndex(frame, labels) == SelectSeq(labels, LAMBDA c : ~InColumns(c, frame))

\* frame[[a, b]]
Columns2(frame, a, b) == Take(frame, <<ColIndex(a, frame), ColIndex(b, frame)>>)

\* frame[c]
Column(frame, c) ==
    Series(c, [r \in DOMAIN frame.rows |-> frame.rows[r][ColIndex(c, frame)]])

(***************************************************************************)
(* pandas.read_csv(path, header=0 | None)                                  *)
(***************************************************************************)
\* skip_blank_lines=True: the lines that are records.
Records(file) == SelectSeq(file.lines, LAMBDA line : line # Blank)

\* An empty field is read as a missing value.
ParseCell(field) == IF field = "" THEN "NaN" ELSE field
ParseRow(line) == [j \in DOMAIN line |-> ParseCell(line[j])]

\* The header as read: an empty field at (0-based) position i is "Unnamed: i".
ThisHeader(fields) ==
    [i \in DOMAIN fields |->
        IF fields[i] = "" THEN "Unnamed: " \o Decimal(i - 1) ELSE fields[i]]

\* The positions (1-based) of the first n fields that are unnamed / named, in order.
RECURSIVE PositionsWhere(_, _, _)
PositionsWhere(fields, n, unnamed) ==
    IF n = 0 THEN <<>>
    ELSE IF (fields[n] = "") = unnamed
      THEN Append(PositionsWhere(fields, n - 1, unnamed), n)
      ELSE PositionsWhere(fields, n - 1, unnamed)

\* col_loop_order: the named columns, then the unnamed ones.
ColLoopOrder(fields) ==
    PositionsWhere(fields, Len(fields), FALSE) \o PositionsWhere(fields, Len(fields), TRUE)

\* counts.get(col, 0) and counts[col] = v
CountOf(counts, col) == IF col \in DOMAIN counts THEN counts[col] ELSE 0
SetCount(counts, col, v) ==
    [x \in (DOMAIN counts) \cup {col} |-> IF x = col THEN v ELSE counts[x]]

\* The loop `while cur_count > 0` that looks for a free name old_col.k.
RECURSIVE Suffixed(_, _, _, _)
Suffixed(old_col, cur_count, counts, header) ==
    LET counts1 == SetCount(counts, old_col, cur_count + 1)
        col == old_col \o "." \o Decimal(cur_count)
        next == IF col \in Range(header) THEN cur_count + 1 ELSE CountOf(counts1, col)
    IN  IF next > 0
          THEN Suffixed(old_col, next, counts1, header)
          ELSE [col |-> col, counts |-> counts1]

\* The loop over col_loop_order, from its k-th element on.
RECURSIVE DedupLoop(_, _, _, _)
DedupLoop(header, counts, order, k) ==
    IF k > Len(order) THEN header
    ELSE LET i == order[k]
             r == IF CountOf(counts, header[i]) > 0
                    THEN Suffixed(header[i], CountOf(counts, header[i]), counts, header)
                    ELSE [col |-> header[i], counts |-> counts]
         IN  DedupLoop([header EXCEPT ![i] = r.col], SetCount(r.counts, r.col, 1),
                       order, k + 1)

\* The column names read_csv makes of the fields of the header line.
DedupNames(fields) == DedupLoop(ThisHeader(fields), <<>>, ColLoopOrder(fields), 1)

ReadCsvError(file) ==
    CASE file.status = "absent" -> "FileNotFoundError"
      [] file.status = "denied" -> "PermissionError"
      [] file.status = "undecodable" -> "UnicodeDecodeError"
      [] file.status = "text" /\ Records(file) = <<>> -> "EmptyDataError"
      [] OTHER -> ""

\* header is TRUE for header=0 and FALSE for header=None.
ReadCsvFrame(file, header) ==
    LET records == Records(file)
        names == DedupNames(records[1])
    IN  IF header
          THEN DataFrame([i \in DOMAIN names |-> Label(names[i])],
                         [r \in 1..(Len(records) - 1) |-> ParseRow(records[r + 1])])
          ELSE DataFrame([i \in DOMAIN records[1] |-> Positional(i - 1)],
                         [r \in DOMAIN records |-> ParseRow(records[r])])

ReadCsv(file, header) ==
    LET exc == ReadCsvError(file)
    IN  IF exc # ""
          THEN [exc |-> exc, frame |-> NoFrame]
          ELSE [exc |-> "", frame |-> ReadCsvFrame(file, header)]

(***************************************************************************)
(* What a call does that its caller or an observer sees: log records and   *)
(* the file read, in order.                                                *)
(***************************************************************************)
Ev(level, msg, a, b) == [level |-> level, msg |-> msg, a |-> a, b |-> b]
Info(msg, a, b) == Ev("INFO", msg, a, b)
Error(msg, a) == Ev("ERROR", msg, a, 0)
FileRead == Ev("IO", "read_csv", 0, 0)

Returned(value) ==
    [exc |-> "", msg |-> "", missing |-> <<>>, available |-> <<>>, value |-> value]
Raised(exc, msg, missing, available) ==
    [exc |-> exc, msg |-> msg, missing |-> missing, available |-> available,
     value |-> <<>>]
NoCall == [op |-> "none", include_id |-> FALSE]

\* A variant of ReadAndLog that answers a failed read with an empty frame.
ReadAndLogSwallowing(path, header) ==
    LET r == ReadCsv(Lookup(path), header)
        reading == <<Info("Reading CSV file", 0, 0), FileRead>>
    IN  IF r.exc = ""
          THEN [ret |-> Returned(<<r.frame>>),
                df |-> r.frame,
                log |-> reading \o <<Info("Loaded DataFrame",
                                          Len(r.frame.rows), Len(r.frame.columns))>>]
          ELSE [ret |-> Returned(<<NoFrame>>),
                df |-> NoFrame,
                log |-> reading \o <<Error("Unexpected error reading CSV file", 0)>>]

\* The body of _read_csv_file: header is TRUE for header = 0, FALSE for header = None.
ReadAndLog(path, header) ==
    LET r == ReadCsv(Lookup(path), header)
        reading == <<Info("Reading CSV file", 0, 0), FileRead>>
    IN  IF r.exc = ""
          THEN [ret |-> Returned(<<r.frame>>),
                df |-> r.frame,
                log |-> reading \o <<Info("Loaded DataFrame",
                                          Len(r.frame.rows), Len(r.frame.columns))>>]
          ELSE IF r.exc = "FileNotFoundError"
          THEN [ret |-> Raised(r.exc, "", <<>>, <<>>),
                df |-> NoFrame,
                log |-> reading \o <<Error("CSV file not found", 0)>>]
          ELSE [ret |-> Raised(r.exc, "", <<>>, <<>>),
                df |-> NoFrame,
                log |-> reading \o <<Error("Unexpected error reading CSV file", 0)>>]

\* A variant of _read_csv_file that always takes the first line as the header.
ReadCsvFileWithHeader == ReadAndLog(csv_path, TRUE)

\* A variant of _read_csv_file that keeps the frame it loaded and returns it again.
ReadCsvFileCached ==
    IF df # NoFrame
      THEN [ret |-> Returned(<<df>>), df |-> df, log |-> <<>>]
      ELSE ReadAndLog(csv_path, has_header)

\* DataFetcher._read_csv_file, on this instance.
ReadCsvFile == ReadAndLog(csv_path, has_header)

\* A variant of Missing that validates the target only.
MissingTargetOnly(frame) ==
    SelectSeq(<<target_name>>, LAMBDA c : Truthy(c) /\ ~InColumns(c, frame))

\* The configured names that are set and are not columns of frame.
Missing(frame) ==
    SelectSeq(<<target_name, id_column>>, LAMBDA c : Truthy(c) /\ ~InColumns(c, frame))

\* A variant of DropCols that leaves the identifier among the features.
DropColsTargetOnly(frame) == <<target_name>>

\* drop_cols: the target, and the identifier when it is set and is a column.
DropCols(frame) ==
    <<target_name>> \o
    (IF Truthy(id_column) /\ InColumns(id_column, frame) THEN <<id_column>> ELSE <<>>)

\* A variant of BuildTarget that ignores include_id_in_target.
BuildTargetAlwaysWithId(frame, include_id_in_target) ==
    IF Truthy(id_column)
      THEN Columns2(frame, id_column, target_name)
      ELSE Column(frame, target_name)

\* target: [id, target] as a frame, or the target column as a Series.
BuildTarget(frame, include_id_in_target) ==
    IF Truthy(id_column) /\ include_id_in_target
      THEN Columns2(frame, id_column, target_name)
      ELSE Column(frame, target_name)

\* The shape of a frame is (rows, columns); of a Series, (rows,), written (rows, 0).
Shape(x) ==
    IF x.kind = "DataFrame" THEN <<Len(x.rows), Len(x.columns)>> ELSE <<Len(x.rows), 0>>

\* The labels the target is built from.
TargetCols(include_id_in_target) ==
    IF Truthy(id_column) /\ include_id_in_target
      THEN <<id_column, target_name>>
      ELSE <<target_name>>

\* The part of get_features_and_target that follows the validation of the columns.
SplitFrame(r, include_id_in_target) ==
    IF NotFoundInAxis(r.df, DropCols(r.df)) # <<>>
      THEN [ret |-> Raised("KeyError", "not found in axis",
                           NotFoundInAxis(r.df, DropCols(r.df)), <<>>),
            df |-> r.df,
            log |-> r.log]
      ELSE LET features == Drop(r.df, DropCols(r.df))
               target == BuildTarget(r.df, include_id_in_target)
               shape == Info("Features shape", Shape(features)[1], Shape(features)[2])
           IN  IF NotInIndex(r.df, TargetCols(include_id_in_target)) # <<>>
                 THEN [ret |-> Raised("KeyError", "not in index",
                                      NotInIndex(r.df, TargetCols(include_id_in_target)),
                                      <<>>),
                       df |-> r.df,
                       log |-> r.log \o <<shape>>]
                 ELSE [ret |-> Returned(<<features, target>>),
                       df |-> r.df,
                       log |-> r.log \o
                               <<shape,
                                 Info("Target shape", Shape(target)[1], Shape(target)[2])>>]

\* DataFetcher.get_features_and_target
GetFeaturesAndTarget(include_id_in_target) ==
    IF target_name = None
      THEN [ret |-> Raised("ValueError", "target_column_name must be provided",
                           <<>>, <<>>),
            df |-> NoFrame,
            log |-> <<Error("Target column not specified", 0)>>]
      ELSE LET r == ReadCsvFile
           IN  IF r.ret.exc # "" THEN r
               ELSE IF Missing(r.df) # <<>>
                 THEN [ret |-> Raised("KeyError", "Columns not found in CSV",
                                      Missing(r.df), r.df.columns),
                       df |-> r.df,
                       log |-> r.log \o
                               <<Error("Missing columns in CSV", Len(Missing(r.df)))>>]
                 ELSE SplitFrame(r, include_id_in_target)

(***************************************************************************)
(* The state after construction: __init__ stores its arguments, and the    *)
(* file system is in any state.                                            *)
(***************************************************************************)
Init ==
    /\ disk \in Files
    /\ csv_path \in (IF disk \in OtherFiles THEN Paths ELSE {DiskPath})
    /\ has_header \in BOOLEAN
    /\ target_name \in ConfigNames
    /\ id_column \in ConfigNames
    /\ modified = FALSE
    /\ call = NoCall
    /\ repeated = FALSE
    /\ ret = Returned(<<>>)
    /\ df = NoFrame
    /\ log = <<>>

\* A caller invokes _read_csv_file ("load").  repeated records that the call
\* repeats the previous one on a file nobody modified in between.
Load ==
    /\ call' = [op |-> "load", include_id |-> FALSE]
    /\ repeated' = (call' = call /\ ~modified)
    /\ LET r == ReadCsvFile
       IN  ret' = r.ret /\ df' = r.df /\ log' = r.log
    /\ modified' = FALSE
    /\ UNCHANGED <<config, disk>>

\* A caller invokes get_features_and_target(include_id_in_target) ("split").
Split(include_id_in_target) ==
    /\ call' = [op |-> "split", include_id |-> include_id_in_target]
    /\ repeated' = (call' = call /\ ~modified)
    /\ LET r == GetFeaturesAndTarget(include_id_in_target)
       IN  ret' = r.ret /\ df' = r.df /\ log' = r.log
    /\ modified' = FALSE
    /\ UNCHANGED <<config, disk>>

\* The file is no longer the one the last call read: what that call returned
\* and logged describes no call on the file as it is, and is dropped.
Forgotten ==
    /\ call' = NoCall
    /\ repeated' = FALSE
    /\ ret' = Returned(<<>>)
    /\ df' = NoFrame
    /\ log' = <<>>

\* Another process removes the file.
Unlink ==
    /\ disk.status # "absent"
    /\ disk' = Absent
    /\ modified' = TRUE
    /\ Forgotten
    /\ UNCHANGED config

\* Another process appends a record to the file.
AppendLine(v) ==
    /\ disk.status = "text"
    /\ Records(disk) # <<>>
    /\ Len(disk.lines) < MaxLines
    /\ disk' = Text(Append(disk.lines, DataLine(v, Len(Records(disk)[1]))))
    /\ modified' = TRUE
    /\ Forgotten
    /\ UNCHANGED config

\* Another process appends an empty line to the file.
AppendBlank ==
    /\ disk.status = "text"
    /\ Len(disk.lines) < MaxLines
    /\ disk' = Text(Append(disk.lines, Blank))
    /\ modified' = TRUE
    /\ Forgotten
    /\ UNCHANGED config

Next ==
    \/ Load
    \/ \E include_id_in_target \in BOOLEAN : Split(include_id_in_target)
    \/ Unlink
    \/ \E v \in RecordKeys : AppendLine(v)

Spec == Init /\ [][Next]_vars

(***************************************************************************)
(* Loads alone, on the files of LoadFiles: an instance made with the path  *)
(* and the header flag only.                                               *)
(***************************************************************************)
InitLoad ==
    /\ disk \in LoadFiles
    /\ csv_path = DiskPath
    /\ has_header \in BOOLEAN
    /\ target_name = None
    /\ id_column = None
    /\ modified = FALSE
    /\ call = NoCall
    /\ repeated = FALSE
    /\ ret = Returned(<<>>)
    /\ df = NoFrame
    /\ log = <<>>

NextLoad ==
    \/ Load
    \/ Unlink
    \/ \E v \in RecordKeys : AppendLine(v)
    \/ AppendBlank

SpecLoad == InitLoad /\ [][NextLoad]_vars

(***************************************************************************)
(* Vocabulary of the properties.                                           *)
(***************************************************************************)
\* The file the instance reads.
Configured == IF csv_path = DiskPath THEN disk ELSE Absent
\* The last call was a split / a load, and the file is as that call saw it.
SplitCalled == call.op = "split"
LoadCalled == call.op = "load"
SplitReturned == SplitCalled /\ ret.exc = ""
\* The last call went as far as reading the file.
ReadAttempted == LoadCalled \/ (SplitCalled /\ target_name # None)
Features == ret.value[1]
Target == ret.value[2]

At(msg) == {i \in DOMAIN log : log[i].msg = msg}
Reads == {i \in DOMAIN log : log[i] = FileRead}
Errors == {i \in DOMAIN log : log[i].level = "ERROR"}
TableLoaded == At("Loaded DataFrame") # {}
Before(I, J) == \A i \in I : \A j \in J : i < j

IsSet(c) == c # None /\ c # Label("")
\* The configured, non-empty names that are not columns of the loaded table.
AbsentNames == {c \in {target_name, id_column} : IsSet(c) /\ c \notin Range(df.columns)}
PosOf(c) == CHOOSE j \in DOMAIN df.columns : df.columns[j] = c
\* The lines of the file that are data, given the header flag.
NonBlank(file) == SelectSeq(file.lines, LAMBDA line : line # <<"">>)
DataLines(file) == IF has_header THEN Tail(NonBlank(file)) ELSE NonBlank(file)
Distinct(s) == \A i, j \in DOMAIN s : s[i] = s[j] => i = j

(***************************************************************************)
(* C1  error_handling                                                      *)
(***************************************************************************)
\* C1: a split with no target name (None or the empty string) fails with the
\* configuration error (ValueError) before any I/O: no file read and no
\* "Reading CSV file" record in that call.
C1_NoTargetFailsBeforeIO ==
    (SplitCalled /\ ~IsSet(target_name)) =>
        /\ ret.exc = "ValueError"
        /\ ret.value = <<>>
        /\ Reads = {}
        /\ At("Reading CSV file") = {}

(***************************************************************************)
(* C2  error_handling                                                      *)
(***************************************************************************)
\* C2: for a loaded table and a non-empty target name, split raises the
\* Missing Column error exactly when some configured non-empty name is not a
\* column; the error names exactly those names, lists exactly the table's
\* columns, and nothing is returned.
C2_MissingColumns ==
    (SplitCalled /\ TableLoaded /\ IsSet(target_name)) =>
        IF AbsentNames # {}
          THEN /\ ret.exc = "KeyError"
               /\ ret.msg = "Columns not found in CSV"
               /\ Range(ret.missing) = AbsentNames
               /\ ret.available = df.columns
               /\ ~modified => Len(ret.available) = Len(NonBlank(disk)[1])
               /\ ret.value = <<>>
          ELSE ret.msg # "Columns not found in CSV"

C2_Witness ==
    /\ SplitCalled
    /\ ret.msg = "Columns not found in CSV"
    /\ Len(ret.missing) = 2
    /\ ret.missing[1] # ret.missing[2]
    /\ Len(ret.available) >= 2

(***************************************************************************)
(* C3  invariants                                                          *)
(***************************************************************************)
\* C3: after a successful split Features, Target and the loaded table have the
\* same number of rows (the number of data lines of the file), and every cell
\* of row i of Features and of Target is a cell of row i of the table, which is
\* data line i of the file.
C3_RowsAligned ==
    SplitReturned =>
        /\ Len(Features.rows) = Len(df.rows)
        /\ Len(Target.rows) = Len(df.rows)
        /\ ~modified => df.rows = DataLines(disk)
        /\ \A i \in DOMAIN df.rows :
              /\ Range(Features.rows[i]) \subseteq Range(df.rows[i])
              /\ IF Target.kind = "Series"
                   THEN Target.rows[i] \in Range(df.rows[i])
                   ELSE Range(Target.rows[i]) \subseteq Range(df.rows[i])

C3_Witness ==
    /\ SplitReturned
    /\ Len(df.rows) = 2
    /\ df.rows[1] # df.rows[2]
    /\ Target.kind = "DataFrame"
    /\ Len(Features.columns) >= 1

(***************************************************************************)
(* C4  functional_correctness                                              *)
(***************************************************************************)
\* C4: after a successful split the columns of Features are the table's
\* columns without the target and, if an identifier is configured, without the
\* identifier, in the table's order; no other column is dropped.
C4_FeatureColumns ==
    SplitReturned =>
        /\ Features.columns =
              SelectSeq(df.columns,
                        LAMBDA c : c # target_name /\ ~(IsSet(id_column) /\ c = id_column))
        /\ target_name \notin Range(Features.columns)
        /\ IsSet(id_column) => id_column \notin Range(Features.columns)
        /\ \A i \in DOMAIN Features.rows : Len(Features.rows[i]) = Len(Features.columns)

C4_Witness ==
    /\ SplitReturned
    /\ IsSet(id_column)
    /\ id_column # target_name
    /\ Len(df.columns) = 3
    /\ Len(Features.columns) = 1
    /\ Len(Features.rows) >= 1

(***************************************************************************)
(* C5  functional_correctness                                              *)
(***************************************************************************)
\* C5: after a successful split Target is the two-column table [identifier,
\* target] in row order exactly when an identifier is configured and
\* include_id_in_target is true; otherwise it is the vector of the target
\* column in row order.
C5_TargetShape ==
    SplitReturned =>
        /\ Len(Target.rows) = Len(df.rows)
        /\ IF IsSet(id_column) /\ call.include_id
             THEN /\ Target.kind = "DataFrame"
                  /\ Target.columns = <<id_column, target_name>>
                  /\ \A i \in DOMAIN df.rows :
                        Target.rows[i] = <<df.rows[i][PosOf(id_column)],
                                           df.rows[i][PosOf(target_name)]>>
             ELSE /\ Target.kind = "Series"
                  /\ \A i \in DOMAIN df.rows :
                        Target.rows[i] = df.rows[i][PosOf(target_name)]

C5_Witness ==
    /\ SplitReturned
    /\ Target.kind = "DataFrame"
    /\ id_column # target_name
    /\ Len(Target.rows) = 2
    /\ Target.rows[1] # Target.rows[2]

(***************************************************************************)
(* C6  error_handling                                                      *)
(***************************************************************************)
\* C6: when the identifier is configured but is not a column of the loaded
\* table (and the target is one), split raises the Missing Column error if
\* include_id_in_target is true, and otherwise succeeds with Features = table
\* minus target and Target = the target vector.
C6_AbsentIdentifier ==
    (SplitCalled /\ TableLoaded /\ IsSet(target_name) /\ IsSet(id_column)
       /\ target_name \in Range(df.columns) /\ id_column \notin Range(df.columns)) =>
        IF call.include_id
          THEN ret.exc = "KeyError" /\ ret.msg = "Columns not found in CSV"
          ELSE /\ ret.exc = ""
               /\ Len(ret.value) = 2
               /\ Features.columns = SelectSeq(df.columns, LAMBDA c : c # target_name)
               /\ Target.kind = "Series"

(***************************************************************************)
(* C7  error_handling                                                      *)
(***************************************************************************)
\* C7: a call that reads a file that is absent ends in FileNotFoundError, and
\* one that meets any other read or parse failure ends in that failure; in
\* both cases nothing is returned, no frame is substituted and the file is
\* read once.
C7_LoadFailureSurfaces ==
    (ReadAttempted /\ ~modified) =>
        /\ Configured.status = "absent" => ret.exc = "FileNotFoundError"
        /\ Configured.status = "denied" => ret.exc = "PermissionError"
        /\ Configured.status = "undecodable" => ret.exc = "UnicodeDecodeError"
        /\ (Configured.status = "text" /\ Configured.lines = <<>>) =>
              ret.exc = "EmptyDataError"
        /\ (Configured.status # "text" \/ Configured.lines = <<>>) =>
              /\ ret.value = <<>>
              /\ df = NoFrame
              /\ Cardinality(Reads) = 1
              /\ ~TableLoaded

C7_Witness ==
    /\ SplitCalled
    /\ ~modified
    /\ csv_path = "missing.csv"
    /\ disk.status = "text"
    /\ ret.exc = "FileNotFoundError"
    /\ ret.value = <<>>

(***************************************************************************)
(* C8  functional_correctness                                              *)
(***************************************************************************)
\* The loaded table, and the first line of the file.
Loaded == ret.value[1]
FirstLine == disk.lines[1]
\* The names a field v of the header line can be given: v itself or v.k.
Suffixes(v) == {v} \cup {v \o "." \o Digits[k] : k \in DOMAIN Digits}

CallStep == call'.op # "none" /\ modified' = FALSE /\ disk' = disk

\* C9: no step changes the configuration; a call that repeats the previous
\* call on an unmodified file returns, raises and logs the same; and every
\* call that reads performs its own read of the file as it is now.
C9_NoStateBetweenCalls ==
    [][/\ config' = config
       /\ (CallStep /\ call' = call /\ ~modified) =>
              (ret' = ret /\ df' = df /\ log' = log)
       /\ (CallStep /\ ReadAttempted') =>
              /\ Cardinality(Reads') = 1
              /\ (Configured'.status = "absent") <=> (ret'.exc = "FileNotFoundError")
              /\ (call'.op = "load" /\ ret'.exc = "") =>
                    ret'.value[1].rows = DataLines(disk')]_vars

C9_Witness ==
    /\ repeated
    /\ LoadCalled
    /\ ret.exc = ""
    /\ Len(ret.value[1].rows) >= 2

(***************************************************************************)
(* C10  temporal                                                           *)
(***************************************************************************)
\* C10: within one split call the "Reading CSV file" record precedes the one
\* file read; the "Loaded DataFrame" record follows a successful read and
\* precedes the validation of the columns; the shape records occur only after
\* the validation passed and the call then returns; a failing call emits
\* exactly one error record, as its last event; a call that passes the
\* configuration check reads the file exactly once.
C10_EventOrder ==
    SplitCalled =>
        /\ Cardinality(Reads) <= 1
        /\ ret.exc # "ValueError" => Cardinality(Reads) = 1
        /\ \A i \in Reads : \E j \in At("Reading CSV file") : j < i
        /\ Before(Reads, At("Loaded DataFrame"))
        /\ TableLoaded => Reads # {} /\ df # NoFrame
        /\ Before(At("Loaded DataFrame"),
                  At("Missing columns in CSV") \cup At("Features shape")
                     \cup At("Target shape"))
        /\ (At("Features shape") \cup At("Target shape")) # {} =>
              TableLoaded /\ AbsentNames = {} /\ ret.exc = ""
        /\ ret.exc = "" =>
              /\ Cardinality(At("Features shape")) = 1
              /\ Cardinality(At("Target shape")) = 1
              /\ Before(At("Features shape"), At("Target shape"))
              /\ Errors = {}
        /\ ret.exc # "" => Errors = {Len(log)}
====
